---- MODULE Spec2Model ----
(***************************************************************************)
(* Disk-based text retrieval index: text pipeline, SPIMI block builder,    *)
(* block merger and top-k cosine query engine.                             *)
(*                                                                         *)
(* Numbers.  The code works on floats; the model uses fixed point.         *)
(*   log10 values   : tenths        (Log10 below)                          *)
(*   tf-idf weights : hundredths    (tf weight in tenths * idf in tenths)  *)
(*   squared sums   : 1/10000                                              *)
(*   norms          : hundredths    (Sqrt of a squared sum)                *)
(*   cosine scores  : thousandths                                          *)
(* Strings.  Tokens are atoms; their ordering (sorted()) is TermRank.      *)
(* Document ids are the naturals 1..9 standing for the strings "1".."9",   *)
(* so str(doc_id) is modelled by the value itself and string order equals  *)
(* numeric order.                                                          *)
(* Files.  A file is a record [exists, data].  The postings store is a     *)
(* sequence of units; every record line is serialised by EncodeRecord into *)
(* units T D P* E NL and parsed back by JsonLoads, so offset/length are    *)
(* positions in that sequence (the terms are ASCII, one char = one byte;   *)
(* "\n" is written as one byte).                                           *)
(***************************************************************************)
EXTENDS Integers, Sequences, FiniteSets, TLC

VARIABLES
    env,          \* what the process finds on disk / importable (fixed)
    stemmer,      \* text_preprocessor._stemmer
    stopwords,    \* text_preprocessor._stopwords
    blocks,       \* <out>/blocks/block_<id>.json : block id -> block map
    doc_stats,    \* <out>/doc_stats.json
    inverted,     \* <out>/inverted.jsonl
    vocabf,       \* <out>/vocab.json
    normsf,       \* <out>/doc_norms.json
    qe,           \* the QueryEngine instance (vocab, doc_norms loaded)
    ret,          \* the last call: its arguments and what it returned/raised
    threads       \* the query calls in progress on qe, one per thread

vars == <<env, stemmer, stopwords, blocks, doc_stats, inverted, vocabf, normsf, qe, ret, threads>>

----------------------------------------------------------------------------
(* Bounds *)

MaxDocs == 2          \* longest document stream given to one build
MaxK == 2             \* largest k given to query
MaxStream == 3        \* longest document stream given to a build on its own
MaxListed == 3        \* largest directory of which every listing order is tried

(* Input alphabets *)

DocIds == {1, 2}
BlockLimits == {1, 2}
Ks == 0..MaxK

NoneText == [none |-> TRUE, raw |-> <<>>]
Text(ws) == [none |-> FALSE, raw |-> ws]

DocTexts ==
    { NoneText, Text(<<"El", "gato">>),
      Text(<<"gato", "perro">>), Text(<<"perro", "come", "perro">>) }

QueryTexts ==
    { NoneText, Text(<<>>), Text(<<"El">>), Text(<<"pez">>),
      Text(<<"gato", "gato">>), Text(<<"gato", "pez">>),
      Text(<<"perro", "gato", "gato">>) }

Envs ==
    { [custom |-> TRUE,  nltk |-> TRUE,  corpus |-> "ok"],
      [custom |-> TRUE,  nltk |-> FALSE, corpus |-> "ok"],
      [custom |-> FALSE, nltk |-> FALSE, corpus |-> "ok"],
      [custom |-> FALSE, nltk |-> TRUE,  corpus |-> "ok"],
      [custom |-> FALSE, nltk |-> TRUE,  corpus |-> "lookup"],
      [custom |-> FALSE, nltk |-> TRUE,  corpus |-> "error"] }

----------------------------------------------------------------------------
(* Generic helpers *)

Min(a, b) == IF a < b THEN a ELSE b

Range(s) == { s[i] : i \in 1..Len(s) }

RECURSIVE SeqsUpTo(_, _)
SeqsUpTo(S, n) ==
    IF n = 0 THEN { <<>> }
    ELSE LET shorter == SeqsUpTo(S, n - 1)
         IN shorter \cup { Append(s, x) : s \in { t \in shorter : Len(t) = n - 1 }, x \in S }

RECURSIVE SumSeq(_)
SumSeq(s) == IF s = <<>> THEN 0 ELSE Head(s) + SumSeq(Tail(s))

RECURSIVE SetToSeq(_)
SetToSeq(S) ==
    IF S = {} THEN <<>>
    ELSE LET x == CHOOSE y \in S : TRUE IN <<x>> \o SetToSeq(S \ {x})

\* the numbers of S in ascending order
RECURSIVE Ascending(_)
Ascending(S) ==
    IF S = {} THEN <<>>
    ELSE LET least == CHOOSE x \in S : \A y \in S : x <= y
         IN <<least>> \o Ascending(S \ {least})

Reverse(s) == [i \in 1..Len(s) |-> s[Len(s) + 1 - i]]

\* number of positions of s holding x
Count(s, x) == Cardinality({ i \in 1..Len(s) : s[i] = x })

\* mutant: one key per occurrence
Distinct_PerOccurrence(s) == s

\* first-occurrence order of the distinct elements of s (dict/Counter key order)
RECURSIVE Distinct(_)
Distinct(s) ==
    IF s = <<>> THEN <<>>
    ELSE LET r == Distinct(SubSeq(s, 1, Len(s) - 1))
             x == s[Len(s)]
         IN IF x \in Range(r) THEN r ELSE Append(r, x)

\* math.sqrt on a fixed-point squared sum: floor of the square root
Sqrt(n) == CHOOSE r \in 0..n : r * r <= n /\ (r + 1) * (r + 1) > n

\* math.log(x, 10) in tenths, for the integer arguments the bounds allow
Log10Table == <<0, 3, 5, 6, 7, 8, 8, 9, 10, 10>>
Log10(n) == Log10Table[n]

----------------------------------------------------------------------------
(* core/text_preprocessor.py *)

\* unidecode + lower + re.sub of one raw word
NormalizeWord(w) ==
    CASE w = "El" -> "el"
      [] OTHER -> w

normalize_text(text) ==
    IF text.none THEN <<>>
    ELSE [i \in 1..Len(text.raw) |-> NormalizeWord(text.raw[i])]

tokenize(text) == normalize_text(text)

CustomStopwords == {"el"}      \* stopwords_es.txt, normalised
NltkStopwords == {"el"}        \* stopwords.words("spanish"), normalised

SnowballStem(t) ==
    CASE t = "gato" -> "gat"
      [] t = "perro" -> "perr"
      [] t = "come" -> "com"
      [] t = "pescado" -> "pesc"
      [] t = "carne" -> "carn"
      [] t = "duerme" -> "duerm"
      [] OTHER -> t

\* words of at most 4 characters are kept; of the longer words of the model
\* only "pescado" ends in a suffix of the tables ("ado")
simple_stem(t) ==
    CASE t = "pescado" -> "pesc"
      [] OTHER -> t

\* The pipeline state is p = [stemmer, stopwords, raised].
\* stopwords = [loaded, words]; loaded = FALSE is None.
EnsureNltkResources(p) ==
    IF ~p.stopwords.loaded /\ env.custom
    THEN [p EXCEPT !.stopwords = [loaded |-> TRUE, words |-> CustomStopwords]]
    ELSE IF ~env.nltk
    THEN [p EXCEPT !.raised = TRUE]
    ELSE LET p1 == [p EXCEPT !.stemmer = "Snowball"]
         IN IF p1.stopwords.loaded THEN p1
            ELSE CASE env.corpus = "ok" ->
                        [p1 EXCEPT !.stopwords = [loaded |-> TRUE, words |-> NltkStopwords]]
                   [] env.corpus = "lookup" ->
                        [p1 EXCEPT !.raised = TRUE]
                   [] OTHER ->
                        [p1 EXCEPT !.stopwords = [loaded |-> TRUE, words |-> {}]]

\* each returns [p, tokens]; tokens are meaningless when p.raised
remove_stopwords(p, tokens) ==
    LET Filter(p1) ==
            [p |-> p1,
             tokens |-> IF p1.raised THEN <<>>
                        ELSE SelectSeq(tokens, LAMBDA t : t \notin p1.stopwords.words)]
    IN Filter(EnsureNltkResources(p))

\* mutant: the stemmer is picked before the resources are ensured
stem_tokens_StaleStemmer(p, tokens) ==
    LET Stem(p1) ==
            [p |-> p1,
             tokens |-> IF p1.raised THEN <<>>
                        ELSE IF p.stemmer # "None"
                        THEN [i \in 1..Len(tokens) |-> SnowballStem(tokens[i])]
                        ELSE [i \in 1..Len(tokens) |-> simple_stem(tokens[i])]]
    IN Stem(EnsureNltkResources(p))

stem_tokens(p, tokens) ==
    LET Stem(p1) ==
            [p |-> p1,
             tokens |-> IF p1.raised THEN <<>>
                        ELSE IF p1.stemmer # "None"
                        THEN [i \in 1..Len(tokens) |-> SnowballStem(tokens[i])]
                        ELSE [i \in 1..Len(tokens) |-> simple_stem(tokens[i])]]
    IN Stem(EnsureNltkResources(p))

preprocess(p, text) ==
    LET Rest(r1) == IF r1.p.raised THEN r1 ELSE stem_tokens(r1.p, r1.tokens)
        Pipe(tokens) ==
            IF tokens = <<>> THEN [p |-> p, tokens |-> <<>>]
            ELSE Rest(remove_stopwords(p, tokens))
    IN Pipe(tokenize(text))

Pipeline == [stemmer |-> stemmer, stopwords |-> stopwords, raised |-> FALSE]

----------------------------------------------------------------------------
(* indexes/inverted_index_spimi.py *)

NoFile == [exists |-> FALSE, data |-> <<>>]
File(d) == [exists |-> TRUE, data |-> d]

EmptyMap == <<>>

\* mutant: every pair carries frequency 1
AppendPostings_UnitTf(block_terms, doc_id, tokens) ==
    LET terms == Range(tokens)
    IN [t \in (DOMAIN block_terms) \cup terms |->
            IF t \in terms
            THEN Append(IF t \in DOMAIN block_terms THEN block_terms[t] ELSE <<>>,
                        <<doc_id, 1>>)
            ELSE block_terms[t]]

\* block_terms[term].append([doc_id, freq]) for every term of the Counter
AppendPostings(block_terms, doc_id, tokens) ==
    LET terms == Range(tokens)
    IN [t \in (DOMAIN block_terms) \cup terms |->
            IF t \in terms
            THEN Append(IF t \in DOMAIN block_terms THEN block_terms[t] ELSE <<>>,
                        <<doc_id, Count(tokens, t)>>)
            ELSE block_terms[t]]

\* (sum of tf^2) ** 0.5, in hundredths
RawNorm(tokens) ==
    LET Norm(terms) ==
            Sqrt(10000 * SumSeq([i \in 1..Len(terms) |-> Count(tokens, terms[i]) * Count(tokens, terms[i])]))
    IN Norm(Distinct(tokens))

write_block(files, block_terms, block_id) ==
    [i \in (DOMAIN files) \cup {block_id} |-> IF i = block_id THEN block_terms ELSE files[i]]

\* mutant: a flush keeps the block map in memory
BuildStep_NoReset(b, doc, block_doc_limit) ==
    LET Place(r, stats, terms, n) ==
            IF n >= block_doc_limit
            THEN [b EXCEPT !.p = r.p, !.doc_stats = stats,
                           !.files = write_block(b.files, terms, b.block_count),
                           !.written = Append(b.written, b.block_count),
                           !.block_count = b.block_count + 1,
                           !.block_terms = terms, !.docs_in_block = 0]
            ELSE [b EXCEPT !.p = r.p, !.doc_stats = stats,
                           !.block_terms = terms, !.docs_in_block = n]
        Step(r) ==
            IF r.p.raised \/ r.tokens = <<>> THEN [b EXCEPT !.p = r.p]
            ELSE Place(r,
                       [d \in (DOMAIN b.doc_stats) \cup {doc.id} |->
                           IF d = doc.id
                           THEN [len |-> Len(r.tokens), norm |-> RawNorm(r.tokens)]
                           ELSE b.doc_stats[d]],
                       AppendPostings(b.block_terms, doc.id, r.tokens),
                       b.docs_in_block + 1)
    IN IF b.p.raised THEN b ELSE Step(preprocess(b.p, doc.text))

\* one iteration of the loop over the document stream; b is the loop state
BuildStep(b, doc, block_doc_limit) ==
    LET Place(r, stats, terms, n) ==
            IF n >= block_doc_limit
            THEN [b EXCEPT !.p = r.p, !.doc_stats = stats,
                           !.files = write_block(b.files, terms, b.block_count),
                           !.written = Append(b.written, b.block_count),
                           !.block_count = b.block_count + 1,
                           !.block_terms = EmptyMap, !.docs_in_block = 0]
            ELSE [b EXCEPT !.p = r.p, !.doc_stats = stats,
                           !.block_terms = terms, !.docs_in_block = n]
        Step(r) ==
            IF r.p.raised \/ r.tokens = <<>> THEN [b EXCEPT !.p = r.p]
            ELSE Place(r,
                       [d \in (DOMAIN b.doc_stats) \cup {doc.id} |->
                           IF d = doc.id
                           THEN [len |-> Len(r.tokens), norm |-> RawNorm(r.tokens)]
                           ELSE b.doc_stats[d]],
                       AppendPostings(b.block_terms, doc.id, r.tokens),
                       b.docs_in_block + 1)
    IN IF b.p.raised THEN b ELSE Step(preprocess(b.p, doc.text))

RECURSIVE BuildLoop(_, _, _)
BuildLoop(b, docs, block_doc_limit) ==
    IF docs = <<>> THEN b
    ELSE BuildLoop(BuildStep(b, Head(docs), block_doc_limit), Tail(docs), block_doc_limit)

\* mutant: the block map is written after the loop in every case
WriteRemaining_Always(b) == TRUE

\* if docs_in_block > 0 or block_count == 0
WriteRemaining(b) == b.docs_in_block > 0 \/ b.block_count = 0

\* SPIMIIndexer(output_dir).build_from_documents(docs, block_doc_limit) over
\* the block files already in the directory.  written lists the ids passed
\* to _write_block, in order.
build_from_documents(p, files, docs, block_doc_limit) ==
    LET Finish(b, last) ==
            IF b.p.raised
            THEN [raised |-> TRUE, p |-> b.p, files |-> b.files, written |-> b.written,
                  doc_stats |-> b.doc_stats, stats_written |-> FALSE, blocks_written |-> 0]
            ELSE [raised |-> FALSE, p |-> b.p,
                  files |-> IF last THEN write_block(b.files, b.block_terms, b.block_count)
                            ELSE b.files,
                  written |-> IF last THEN Append(b.written, b.block_count) ELSE b.written,
                  doc_stats |-> b.doc_stats, stats_written |-> TRUE,
                  blocks_written |-> b.block_count + (IF b.docs_in_block > 0 THEN 1 ELSE 0)]
        AfterLoop(b) == Finish(b, WriteRemaining(b))
    IN AfterLoop(BuildLoop([p |-> p, files |-> files, written |-> <<>>, doc_stats |-> EmptyMap,
                            block_terms |-> EmptyMap, block_count |-> 0, docs_in_block |-> 0],
                           docs, block_doc_limit))

----------------------------------------------------------------------------
(* indexes/merge_blocks.py *)

\* the characters of "<id>.json" that decide sorted(glob(...)): the decimal
\* digits of the id (as code points) followed by "."
RECURSIVE Digits(_)
Digits(n) == IF n < 10 THEN <<48 + n>> ELSE Append(Digits(n \div 10), 48 + (n % 10))

PathKey(id) == Append(Digits(id), 46)

RECURSIVE LexLess(_, _)
LexLess(a, b) ==
    IF b = <<>> THEN FALSE
    ELSE IF a = <<>> THEN TRUE
    ELSE IF Head(a) # Head(b) THEN Head(a) < Head(b)
    ELSE LexLess(Tail(a), Tail(b))

\* glob.glob("block_*.json"): the block ids of the directory, in any order
\* (of a directory of more than MaxListed files, in ascending and in
\* descending order of the ids)
GlobListings(files) ==
    IF Cardinality(DOMAIN files) <= MaxListed
    THEN { l \in [1..Cardinality(DOMAIN files) -> DOMAIN files] :
             \A i, j \in DOMAIN l : i # j => l[i] # l[j] }
    ELSE { Ascending(DOMAIN files), Reverse(Ascending(DOMAIN files)) }

\* the block ids of a set in ascending path order
RECURSIVE SortedBlockFiles(_)
SortedBlockFiles(ids) ==
    LET Cons(first) == <<first>> \o SortedBlockFiles(ids \ {first})
    IN IF ids = {} THEN <<>>
       ELSE Cons(CHOOSE i \in ids : \A j \in ids \ {i} : LexLess(PathKey(i), PathKey(j)))

\* mutant: the listing is used in the order glob returned it
SortedPaths_Unsorted(listing) == listing

\* sorted(listing) of a list of block paths
SortedPaths(listing) == SortedBlockFiles(Range(listing))

\* string order of the tokens of the model
TermOrder ==
    <<"carn", "carne", "com", "come", "duerm", "duerme", "el", "gat", "gato",
      "perr", "perro", "pesc", "pescado", "pez">>
TermRank(t) == CHOOSE i \in 1..Len(TermOrder) : TermOrder[i] = t

\* mutant: the terms are written in descending order
RECURSIVE SortedTerms_Descending(_)
SortedTerms_Descending(ts) ==
    LET Cons(first) == <<first>> \o SortedTerms_Descending(ts \ {first})
    IN IF ts = {} THEN <<>>
       ELSE Cons(CHOOSE t \in ts : \A u \in ts \ {t} : TermRank(t) > TermRank(u))

\* sorted(term_doc_tf.keys())
RECURSIVE SortedTerms(_)
SortedTerms(ts) ==
    LET Cons(first) == <<first>> \o SortedTerms(ts \ {first})
    IN IF ts = {} THEN <<>>
       ELSE Cons(CHOOSE t \in ts : \A u \in ts \ {t} : TermRank(t) < TermRank(u))

\* mutant: every pair is appended, frequencies of a repeated pair are not summed
AddTf_Append(docs, doc_id, tf) == Append(docs, <<doc_id, tf>>)

\* mutant: = instead of +=
AddTf_KeepLast(docs, doc_id, tf) ==
    IF \E i \in 1..Len(docs) : docs[i][1] = doc_id
    THEN [i \in 1..Len(docs) |-> IF docs[i][1] = doc_id THEN <<doc_id, tf>> ELSE docs[i]]
    ELSE Append(docs, <<doc_id, tf>>)

\* term_doc_tf[term][str(doc_id)] += int(tf); docs is the inner dict as a
\* sequence of <<doc_id, tf>> in insertion order
AddTf(docs, doc_id, tf) ==
    IF \E i \in 1..Len(docs) : docs[i][1] = doc_id
    THEN [i \in 1..Len(docs) |-> IF docs[i][1] = doc_id THEN <<doc_id, docs[i][2] + tf>> ELSE docs[i]]
    ELSE Append(docs, <<doc_id, tf>>)

RECURSIVE AddPostingList(_, _)
AddPostingList(docs, postings) ==
    IF postings = <<>> THEN docs
    ELSE AddPostingList(AddTf(docs, Head(postings)[1], Head(postings)[2]), Tail(postings))

\* the loop over block.items() of one block file
AggregateBlock(term_doc_tf, block) ==
    LET touched == { t \in DOMAIN block : block[t] # <<>> }
    IN [t \in (DOMAIN term_doc_tf) \cup touched |->
            AddPostingList(IF t \in DOMAIN term_doc_tf THEN term_doc_tf[t] ELSE <<>>,
                           IF t \in touched THEN block[t] ELSE <<>>)]

RECURSIVE AggregateBlocks(_, _, _)
AggregateBlocks(term_doc_tf, files, order) ==
    IF order = <<>> THEN term_doc_tf
    ELSE AggregateBlocks(AggregateBlock(term_doc_tf, files[Head(order)]), files, Tail(order))

\* doc_ids: every document id added while aggregating
DocIdsOf(term_doc_tf) ==
    UNION { { term_doc_tf[t][i][1] : i \in 1..Len(term_doc_tf[t]) } : t \in DOMAIN term_doc_tf }

Idf(N, df) == IF df > 0 THEN Log10(N) - Log10(df) ELSE 0
TfWeight(tf) == IF tf > 0 THEN 10 + Log10(tf) ELSE 0
Weight(N, df, tf) == TfWeight(tf) * Idf(N, df)

\* postings list of one term: [[doc_id, weight], ...]
Postings(N, docs) ==
    [i \in 1..Len(docs) |-> <<docs[i][1], Weight(N, Len(docs), docs[i][2])>>]

\* mutant: = instead of +=
RECURSIVE AddSquares_Overwrite(_, _)
AddSquares_Overwrite(sq, postings) ==
    IF postings = <<>> THEN sq
    ELSE LET d == Head(postings)[1]
             w == Head(postings)[2]
             sq1 == [x \in (DOMAIN sq) \cup {d} |-> IF x = d THEN w * w ELSE sq[x]]
         IN AddSquares_Overwrite(sq1, Tail(postings))

\* mutant: postings of weight zero are skipped, so their document may get no entry
RECURSIVE AddSquares_SkipZero(_, _)
AddSquares_SkipZero(sq, postings) ==
    IF postings = <<>> THEN sq
    ELSE LET d == Head(postings)[1]
             w == Head(postings)[2]
             sq1 == IF w = 0 THEN sq
                    ELSE [x \in (DOMAIN sq) \cup {d} |->
                            (IF x \in DOMAIN sq THEN sq[x] ELSE 0) + (IF x = d THEN w * w ELSE 0)]
         IN AddSquares_SkipZero(sq1, Tail(postings))

\* doc_sq_sums[doc_id] += weight * weight for every posting of the list
RECURSIVE AddSquares(_, _)
AddSquares(sq, postings) ==
    IF postings = <<>> THEN sq
    ELSE LET d == Head(postings)[1]
             w == Head(postings)[2]
             sq1 == [x \in (DOMAIN sq) \cup {d} |->
                        (IF x \in DOMAIN sq THEN sq[x] ELSE 0) + (IF x = d THEN w * w ELSE 0)]
         IN AddSquares(sq1, Tail(postings))

Unit(k, s, n, w) == [k |-> k, s |-> s, n |-> n, w |-> w]

\* json.dumps(record) + "\n"
EncodeRecord(term, df, postings) ==
    <<Unit("T", term, 0, 0), Unit("D", "", df, 0)>>
    \o [i \in 1..Len(postings) |-> Unit("P", "", postings[i][1], postings[i][2])]
    \o <<Unit("E", "", 0, 0), Unit("NL", "", 0, 0)>>

\* invf.tell(): the bytes written so far
Tell(bytes) == Len(bytes)

\* mutant: the line terminator is not counted
EncodedLength_NoNewline(line) == Len(line) - 1

\* len(line.encode("utf-8"))
EncodedLength(line) == Len(line)

\* one iteration of the loop over sorted terms; m = [bytes, vocab, sq]
WriteTerm(m, N, term, docs) ==
    LET Write(df, postings, offset, line) ==
            [bytes |-> m.bytes \o line,
             vocab |-> [t \in (DOMAIN m.vocab) \cup {term} |->
                           IF t = term
                           THEN [df |-> df, offset |-> offset, length |-> EncodedLength(line)]
                           ELSE m.vocab[t]],
             sq |-> AddSquares(m.sq, postings)]
        Record(df, postings) ==
            Write(df, postings, Tell(m.bytes), EncodeRecord(term, df, postings))
    IN Record(Len(docs), Postings(N, docs))

RECURSIVE WriteTerms(_, _, _, _)
WriteTerms(m, N, term_doc_tf, order) ==
    IF order = <<>> THEN m
    ELSE WriteTerms(WriteTerm(m, N, Head(order), term_doc_tf[Head(order)]), N, term_doc_tf, Tail(order))

\* mutant: an aggregation of zero documents is written out like any other
merge_blocks_NoEmptyCheck(files, listing) ==
    LET Output(N, m) ==
            [raised |-> "", N |-> N, inverted |-> m.bytes, vocab |-> m.vocab,
             doc_norms |-> [d \in DOMAIN m.sq |-> Sqrt(m.sq[d])]]
        Emit(term_doc_tf, N) ==
            Output(N, WriteTerms([bytes |-> <<>>, vocab |-> EmptyMap, sq |-> EmptyMap],
                                 N, term_doc_tf, SortedTerms(DOMAIN term_doc_tf)))
        Aggregated(term_doc_tf) == Emit(term_doc_tf, Cardinality(DocIdsOf(term_doc_tf)))
        Listed(block_files) ==
            IF block_files = <<>> THEN [raised |-> "FileNotFoundError", N |-> 0]
            ELSE Aggregated(AggregateBlocks(EmptyMap, files, block_files))
    IN Listed(SortedPaths(listing))

\* merge_blocks(blocks_dir, out_dir) as a function of the block files and of
\* the order in which glob lists them
merge_blocks(files, listing) ==
    LET Output(N, m) ==
            [raised |-> "", N |-> N, inverted |-> m.bytes, vocab |-> m.vocab,
             doc_norms |-> [d \in DOMAIN m.sq |-> Sqrt(m.sq[d])]]
        Emit(term_doc_tf, N) ==
            IF N = 0 THEN [raised |-> "RuntimeError", N |-> 0]
            ELSE Output(N, WriteTerms([bytes |-> <<>>, vocab |-> EmptyMap, sq |-> EmptyMap],
                                      N, term_doc_tf, SortedTerms(DOMAIN term_doc_tf)))
        Aggregated(term_doc_tf) == Emit(term_doc_tf, Cardinality(DocIdsOf(term_doc_tf)))
        Listed(block_files) ==
            IF block_files = <<>> THEN [raised |-> "FileNotFoundError", N |-> 0]
            ELSE Aggregated(AggregateBlocks(EmptyMap, files, block_files))
    IN Listed(SortedPaths(listing))

----------------------------------------------------------------------------
(* indexes/query_engine.py *)

RECURSIVE StripLeading(_)
StripLeading(data) ==
    IF data # <<>> /\ Head(data).k = "NL" THEN StripLeading(Tail(data)) ELSE data

RECURSIVE StripTrailing(_)
StripTrailing(data) ==
    IF data # <<>> /\ data[Len(data)].k = "NL"
    THEN StripTrailing(SubSeq(data, 1, Len(data) - 1)) ELSE data

\* json.loads(data.decode("utf-8")): surrounding whitespace is ignored;
\* T D P* E is an object, one P alone is an array, anything else raises
JsonLoads(data) ==
    LET Parse(d, n) ==
            IF n >= 3 /\ d[1].k = "T" /\ d[2].k = "D" /\ d[n].k = "E"
               /\ \A i \in 3..(n - 1) : d[i].k = "P"
            THEN [kind |-> "object", term |-> d[1].s, df |-> d[2].n,
                  postings |-> [i \in 1..(n - 3) |-> <<d[i + 2].n, d[i + 2].w>>]]
            ELSE IF n = 1 /\ d[1].k = "P"
            THEN [kind |-> "array", term |-> "", df |-> 0, postings |-> <<>>]
            ELSE [kind |-> "invalid", term |-> "", df |-> 0, postings |-> <<>>]
        Stripped(d) == Parse(d, Len(d))
    IN Stripped(StripTrailing(StripLeading(data)))

\* mutant: the read starts where the record ends
ReadAt_NextRecord(data, offset, length) ==
    SubSeq(data, offset + length + 1, Min(offset + 2 * length, Len(data)))

\* f.seek(offset); f.read(length)
ReadAt(data, offset, length) ==
    SubSeq(data, offset + 1, Min(offset + length, Len(data)))

NoEngine == [built |-> FALSE, vocab |-> EmptyMap, doc_norms |-> EmptyMap]

\* mutant: a missing norm table is read as an empty one
QueryEngineInit_NormsOptional(inv, vf, nf) ==
    IF ~inv.exists \/ ~vf.exists
    THEN [raised |-> "FileNotFoundError", engine |-> NoEngine]
    ELSE [raised |-> "", engine |-> [built |-> TRUE, vocab |-> vf.data, doc_norms |-> nf.data]]

\* QueryEngine(index_dir)
QueryEngineInit(inv, vf, nf) ==
    IF ~inv.exists \/ ~vf.exists \/ ~nf.exists
    THEN [raised |-> "FileNotFoundError", engine |-> NoEngine]
    ELSE [raised |-> "", engine |-> [built |-> TRUE, vocab |-> vf.data, doc_norms |-> nf.data]]

\* self._read_postings(term) -> postings, length
read_postings(engine, inv, term) ==
    LET Loaded(length, record) ==
            IF record.kind = "invalid" THEN [raised |-> "", postings |-> <<>>, br |-> length]
            ELSE IF record.kind = "array" THEN [raised |-> "AttributeError", postings |-> <<>>, br |-> 0]
            ELSE [raised |-> "", postings |-> record.postings, br |-> length]
        Read(meta) ==
            IF ~inv.exists THEN [raised |-> "FileNotFoundError", postings |-> <<>>, br |-> 0]
            ELSE Loaded(meta.length, JsonLoads(ReadAt(inv.data, meta.offset, meta.length)))
    IN IF term \notin DOMAIN engine.vocab THEN [raised |-> "", postings |-> <<>>, br |-> 0]
       ELSE Read(engine.vocab[term])

\* accum[doc_id] = accum.get(doc_id, 0.0) + q_w * float(doc_w) for a postings list
RECURSIVE Accumulate(_, _, _)
Accumulate(accum, q_w, postings) ==
    IF postings = <<>> THEN accum
    ELSE LET d == Head(postings)[1]
             add == q_w * Head(postings)[2]
             accum1 == IF \E i \in 1..Len(accum) : accum[i][1] = d
                       THEN [i \in 1..Len(accum) |->
                                IF accum[i][1] = d THEN <<d, accum[i][2] + add>> ELSE accum[i]]
                       ELSE Append(accum, <<d, add>>)
         IN Accumulate(accum1, q_w, Tail(postings))

\* one iteration of the loop over q_tf.items(); a = [accum, q_sq_sum, bytes_read,
\* raised, reads]; reads counts the calls of _read_postings that open the store
ScoreTerm(a, engine, inv, term, tf) ==
    LET Add(q_w, r) ==
            IF r.raised # "" THEN [a EXCEPT !.raised = r.raised, !.reads = a.reads + 1]
            ELSE [accum |-> Accumulate(a.accum, q_w, r.postings),
                  q_sq_sum |-> a.q_sq_sum + q_w * q_w,
                  bytes_read |-> a.bytes_read + r.br,
                  raised |-> "",
                  reads |-> a.reads + 1]
        Weigh(df) ==
            Add(TfWeight(tf) * Idf(Cardinality(DOMAIN engine.doc_norms), df),
                read_postings(engine, inv, term))
    IN IF a.raised # "" \/ term \notin DOMAIN engine.vocab THEN a
       ELSE Weigh(engine.vocab[term].df)

RECURSIVE ScoreTerms(_, _, _, _, _)
ScoreTerms(a, engine, inv, tokens, terms) ==
    IF terms = <<>> THEN a
    ELSE ScoreTerms(ScoreTerm(a, engine, inv, Head(terms), Count(tokens, Head(terms))),
                    engine, inv, tokens, Tail(terms))

\* (score, doc_id) tuple comparison
ItemLess(a, b) == a[1] < b[1] \/ (a[1] = b[1] /\ a[2] < b[2])

\* heapq._siftdown(heap, startpos, pos) with heap 1-indexed: position i is index i - 1
RECURSIVE SiftDownFrom(_, _, _, _)
SiftDownFrom(heap, startpos, pos, newitem) ==
    IF pos > startpos /\ ItemLess(newitem, heap[((pos - 1) \div 2) + 1])
    THEN SiftDownFrom([heap EXCEPT ![pos + 1] = heap[((pos - 1) \div 2) + 1]],
                      startpos, (pos - 1) \div 2, newitem)
    ELSE [heap EXCEPT ![pos + 1] = newitem]

siftdown(heap, startpos, pos) == SiftDownFrom(heap, startpos, pos, heap[pos + 1])

\* heapq._siftup(heap, pos): bubble the smaller child up to a leaf, then sift down
RECURSIVE SiftUpFrom(_, _, _, _)
SiftUpFrom(heap, startpos, pos, newitem) ==
    LET endpos == Len(heap)
        childpos == 2 * pos + 1
        rightpos == childpos + 1
        c == IF rightpos < endpos /\ ~ItemLess(heap[childpos + 1], heap[rightpos + 1])
             THEN rightpos ELSE childpos
    IN IF childpos < endpos
       THEN SiftUpFrom([heap EXCEPT ![pos + 1] = heap[c + 1]], startpos, c, newitem)
       ELSE SiftDownFrom(heap, startpos, pos, newitem)

heappush(heap, item) == siftdown(Append(heap, item), 0, Len(heap))

heapreplace(heap, item) == SiftUpFrom([heap EXCEPT ![1] = item], 0, 0, item)

\* cosine score dot / (q_norm * doc_norm), in thousandths
Score(dot, q_norm, doc_norm) == (dot * 1000) \div (q_norm * doc_norm)

\* mutant: a full heap never takes a new candidate
Beats_Never(score, heap) == FALSE

\* the heap[0][0] < score test that lets a candidate replace the minimum
Beats(score, heap) == score > heap[1][1]

\* one iteration of the loop over accum.items(); h = [heap, raised]
PushCandidate(h, engine, q_norm, k, cand) ==
    LET Push(item) ==
            IF Len(h.heap) < k THEN [h EXCEPT !.heap = heappush(h.heap, item)]
            ELSE IF h.heap = <<>> THEN [h EXCEPT !.raised = "IndexError"]
            ELSE IF Beats(item[1], h.heap) THEN [h EXCEPT !.heap = heapreplace(h.heap, item)]
            ELSE h
        Candidate(doc_id, dot, doc_norm) ==
            IF h.raised # "" \/ doc_norm = 0 THEN h
            ELSE Push(<<Score(dot, q_norm, doc_norm), doc_id>>)
    IN Candidate(cand[1], cand[2],
                 IF cand[1] \in DOMAIN engine.doc_norms THEN engine.doc_norms[cand[1]] ELSE 0)

RECURSIVE PushCandidates(_, _, _, _, _)
PushCandidates(h, engine, q_norm, k, accum) ==
    IF accum = <<>> THEN h
    ELSE PushCandidates(PushCandidate(h, engine, q_norm, k, Head(accum)), engine, q_norm, k, Tail(accum))

\* sorted(items, key=score, reverse=True): stable, descending
RECURSIVE InsertDesc(_, _)
InsertDesc(sorted, item) ==
    IF sorted = <<>> THEN <<item>>
    ELSE IF Head(sorted)[2] >= item[2] THEN <<Head(sorted)>> \o InsertDesc(Tail(sorted), item)
    ELSE <<item>> \o sorted

RECURSIVE SortedDesc(_)
SortedDesc(items) ==
    IF items = <<>> THEN <<>>
    ELSE InsertDesc(SortedDesc(SubSeq(items, 1, Len(items) - 1)), items[Len(items)])

\* mutant: no early return for an empty token list
EmptyQuery_Never(tokens) == FALSE

\* if not tokens
EmptyQuery(tokens) == tokens = <<>>

Outcome(raised, results, time, bytes_read, accum, q_norm, reads) ==
    [raised |-> raised, results |-> results, time |-> time, bytes_read |-> bytes_read,
     accum |-> accum, q_norm |-> q_norm, reads |-> reads]

\* the part of query() after preprocess: tokens -> outcome.  results, time
\* and bytes_read are returned; accum, q_norm and reads record the locals
QueryTokens(engine, inv, tokens, k) ==
    LET Ranked(a, q_norm, h) ==
            IF h.raised # ""
            THEN Outcome(h.raised, <<>>, "none", 0, a.accum, q_norm, a.reads)
            ELSE Outcome("",
                         SortedDesc(SortedDesc([i \in 1..Len(h.heap) |-> <<h.heap[i][2], h.heap[i][1]>>])),
                         "elapsed", a.bytes_read, a.accum, q_norm, a.reads)
        Select(a, q_norm) ==
            Ranked(a, q_norm,
                   PushCandidates([heap |-> <<>>, raised |-> ""], engine, q_norm, k, a.accum))
        Scored(a) ==
            IF a.raised # ""
            THEN Outcome(a.raised, <<>>, "none", 0, a.accum, 0, a.reads)
            ELSE Select(a, IF a.q_sq_sum > 0 THEN Sqrt(a.q_sq_sum) ELSE 100)
    IN IF EmptyQuery(tokens)
       THEN Outcome("", <<>>, "zero", 0, <<>>, 0, 0)
       ELSE Scored(ScoreTerms([accum |-> <<>>, q_sq_sum |-> 0, bytes_read |-> 0,
                               raised |-> "", reads |-> 0],
                              engine, inv, tokens, Distinct(tokens)))

\* QueryEngine.query(qtext, k) -> [p, tokens, out]
query(p, engine, inv, qtext, k) ==
    LET Answer(r) ==
            IF r.p.raised
            THEN [p |-> r.p, tokens |-> <<>>,
                  out |-> Outcome("PreprocessError", <<>>, "none", 0, <<>>, 0, 0)]
            ELSE [p |-> r.p, tokens |-> r.tokens, out |-> QueryTokens(engine, inv, r.tokens, k)]
    IN Answer(preprocess(p, qtext))

----------------------------------------------------------------------------
(* The state machine: one action per call *)

Docs == [id : DocIds, text : DocTexts]
Streams == SeqsUpTo(Docs, MaxDocs)

NoRet ==
    [op |-> "none", raised |-> "", written |-> <<>>, blocks_written |-> 0, N |-> 0,
     q |-> NoneText, k |-> 0, tokens |-> <<>>, results |-> <<>>, time |-> "none",
     bytes_read |-> 0, accum |-> <<>>, q_norm |-> 0, reads |-> 0,
     impl |-> "none", warm |-> FALSE, input |-> <<>>, docs |-> <<>>, limit |-> 0]

Threads == {1, 2}

\* a thread that is not inside a call
Idle ==
    [pc |-> "idle", phase |-> "none", q |-> NoneText, k |-> 0, tokens |-> <<>>,
     out |-> Outcome("", <<>>, "none", 0, <<>>, 0, 0)]

Init ==
    /\ threads = [t \in Threads |-> Idle]
    /\ env \in Envs
    /\ stemmer = "None"
    /\ stopwords = [loaded |-> FALSE, words |-> {}]
    /\ blocks = EmptyMap
    /\ doc_stats = NoFile
    /\ inverted = NoFile
    /\ vocabf = NoFile
    /\ normsf = NoFile
    /\ qe = NoEngine
    /\ ret = NoRet

\* SPIMIIndexer(out).build_from_documents(docs, block_doc_limit)
Build(docs, block_doc_limit) ==
    LET Effect(r) ==
            /\ blocks' = r.files
            /\ doc_stats' = IF r.stats_written THEN File(r.doc_stats) ELSE doc_stats
            /\ stemmer' = r.p.stemmer
            /\ stopwords' = r.p.stopwords
            /\ ret' = [NoRet EXCEPT !.op = "build", !.docs = docs, !.limit = block_doc_limit,
                                    !.raised = IF r.raised THEN "PreprocessError" ELSE "",
                                    !.written = r.written,
                                    !.blocks_written = r.blocks_written]
    IN /\ Effect(build_from_documents(Pipeline, blocks, docs, block_doc_limit))
       /\ UNCHANGED <<threads, env, inverted, vocabf, normsf, qe>>

\* merge_blocks(out/blocks, out)
Merge ==
    LET Effect(r) ==
            /\ IF r.raised = ""
               THEN /\ inverted' = File(r.inverted)
                    /\ vocabf' = File(r.vocab)
                    /\ normsf' = File(r.doc_norms)
               ELSE UNCHANGED <<inverted, vocabf, normsf>>
            /\ ret' = [NoRet EXCEPT !.op = "merge", !.raised = r.raised, !.N = r.N]
    IN /\ \E listing \in GlobListings(blocks) : Effect(merge_blocks(blocks, listing))
       /\ UNCHANGED <<threads, env, stemmer, stopwords, blocks, doc_stats, qe>>

\* qe = QueryEngine(out)
NewEngine ==
    LET Effect(r) ==
            /\ qe' = IF r.raised = "" THEN r.engine ELSE qe
            /\ ret' = [NoRet EXCEPT !.op = "engine", !.raised = r.raised]
    IN /\ Effect(QueryEngineInit(inverted, vocabf, normsf))
       /\ UNCHANGED <<threads, env, stemmer, stopwords, blocks, doc_stats, inverted, vocabf, normsf>>

\* qe.query(qtext, k)
Query(qtext, k) ==
    LET Effect(r) ==
            /\ stemmer' = r.p.stemmer
            /\ stopwords' = r.p.stopwords
            /\ ret' = [NoRet EXCEPT !.op = "query", !.raised = r.out.raised, !.q = qtext, !.k = k,
                                    !.tokens = r.tokens, !.results = r.out.results,
                                    !.time = r.out.time, !.bytes_read = r.out.bytes_read,
                                    !.accum = r.out.accum, !.q_norm = r.out.q_norm,
                                    !.reads = r.out.reads]
    IN /\ qe.built
       /\ Effect(query(Pipeline, qe, inverted, qtext, k))
       /\ UNCHANGED <<threads, env, blocks, doc_stats, inverted, vocabf, normsf, qe>>

\* a build into an output directory that holds no block file yet
BuildAny ==
    /\ blocks = EmptyMap
    /\ \E docs \in Streams, limit \in BlockLimits : Build(docs, limit)
QueryAny == \E qtext \in QueryTexts, k \in Ks : Query(qtext, k)

Next == BuildAny \/ Merge \/ NewEngine \/ QueryAny

\* One build into an empty output directory, then merges, engines, queries.
Spec == Init /\ [][Next]_vars

\* Repeated build/merge cycles into the same output directory, while an
\* engine constructed earlier keeps answering queries.
RebuildStreams ==
    { <<>>,
      <<[id |-> 1, text |-> Text(<<"El", "gato">>)],
        [id |-> 2, text |-> Text(<<"perro", "come", "perro">>)]>>,
      <<[id |-> 1, text |-> Text(<<"gato", "perro">>)]>> }

InitRebuild == Init /\ env = [custom |-> TRUE, nltk |-> TRUE, corpus |-> "ok"]

Rebuild == \E docs \in RebuildStreams, limit \in BlockLimits : Build(docs, limit)

NextRebuild == Rebuild \/ Merge \/ NewEngine \/ QueryAny

SpecRebuild == InitRebuild /\ [][NextRebuild]_vars

\* The three-document corpus "el gato come pescado", "el perro come carne",
\* "el gato duerme": one build, then merges, engines and queries.
ExampleCorpus ==
    << [id |-> 1, text |-> Text(<<"el", "gato", "come", "pescado">>)],
       [id |-> 2, text |-> Text(<<"el", "perro", "come", "carne">>)],
       [id |-> 3, text |-> Text(<<"el", "gato", "duerme">>)] >>

ExampleLimits == {1, 2, 3}

ExampleQueries ==
    { Text(<<"gato">>), Text(<<"el">>), Text(<<"pez">>), Text(<<"perro", "come">>),
      Text(<<"gato", "carne">>), Text(<<"el", "gato", "duerme">>) }

BuildExample ==
    /\ blocks = EmptyMap
    /\ \E limit \in ExampleLimits : Build(ExampleCorpus, limit)

QueryExample == \E qtext \in ExampleQueries, k \in Ks : Query(qtext, k)

NextExample == BuildExample \/ Merge \/ NewEngine \/ QueryExample

SpecExample == Init /\ [][NextExample]_vars

\* A build of eleven documents, so that block_doc_limit = 1 gives the block
\* files block_0.json ... block_10.json, then merges, engines and queries.
ManyDocs ==
    << [id |-> 1, text |-> Text(<<"perro">>)], [id |-> 2, text |-> Text(<<"perro">>)],
       [id |-> 3, text |-> Text(<<"gato">>)],  [id |-> 4, text |-> Text(<<"perro">>)],
       [id |-> 5, text |-> Text(<<"perro">>)], [id |-> 6, text |-> Text(<<"perro">>)],
       [id |-> 7, text |-> Text(<<"perro">>)], [id |-> 8, text |-> Text(<<"perro">>)],
       [id |-> 9, text |-> Text(<<"perro">>)], [id |-> 1, text |-> Text(<<"perro">>)],
       [id |-> 2, text |-> Text(<<"gato">>)] >>

BuildMany ==
    /\ blocks = EmptyMap
    /\ \E limit \in BlockLimits : Build(ManyDocs, limit)

NextManyBlocks == BuildMany \/ Merge \/ NewEngine \/ QueryAny

SpecManyBlocks == Init /\ [][NextManyBlocks]_vars

\* A build over a stream that names document 1 twice, then merges, engines
\* and queries: with block_doc_limit = 1 the pairs of document 1 recur in
\* two block files, with a larger limit in one.
RecurringDocs ==
    << [id |-> 1, text |-> Text(<<"gato", "perro">>)],
       [id |-> 1, text |-> Text(<<"El", "gato">>)],
       [id |-> 2, text |-> Text(<<"perro", "come", "perro">>)] >>

RecurringLimits == {1, 2, 3}

BuildRecurring ==
    /\ blocks = EmptyMap
    /\ \E limit \in RecurringLimits : Build(RecurringDocs, limit)

NextRecurring == BuildRecurring \/ Merge \/ NewEngine \/ QueryAny

SpecRecurring == Init /\ [][NextRecurring]_vars

\* Two threads call query on one engine, in a process that has made no
\* pipeline call yet; the index was built and merged by an earlier process.
\* A step is one read or one assignment of the globals _stemmer and
\* _stopwords, or a stretch of code that touches neither.
PrebuiltBlocks ==
    (0 :> [gat |-> <<<<1, 1>>>>]) @@ (1 :> [gat |-> <<<<2, 1>>>>, perr |-> <<<<2, 1>>>>])

PrebuiltIndex == merge_blocks(PrebuiltBlocks, <<0, 1>>)

ConcurrentQueries == { NoneText, Text(<<"El", "gato">>), Text(<<"perro">>) }

ConcurrentKs == 1..MaxK

InitConcurrent ==
    /\ threads = [t \in Threads |-> Idle]
    /\ env \in Envs
    /\ stemmer = "None"
    /\ stopwords = [loaded |-> FALSE, words |-> {}]
    /\ blocks = PrebuiltBlocks
    /\ doc_stats = NoFile
    /\ inverted = File(PrebuiltIndex.inverted)
    /\ vocabf = File(PrebuiltIndex.vocab)
    /\ normsf = File(PrebuiltIndex.doc_norms)
    /\ qe = QueryEngineInit(inverted, vocabf, normsf).engine
    /\ ret = NoRet

\* where _ensure_nltk_resources returns to
AfterEnsure(th) == IF th.phase = "rs" THEN "filter" ELSE "stem"

\* the exception leaves query
Raise(th) ==
    [th EXCEPT !.pc = "done", !.out = Outcome("PreprocessError", <<>>, "none", 0, <<>>, 0, 0)]

\* one token buffer shared by the calls in progress
TokensAt_Shared(self) == threads[1].tokens

\* the tokens of the call of thread self
TokensAt(self) == threads[self].tokens

\* query(qtext, k) up to the first call of _ensure_nltk_resources
TCall(self, qtext, k) ==
    /\ threads[self].pc = "idle"
    /\ qe.built
    /\ threads' = [threads EXCEPT ![self] =
          [Idle EXCEPT !.pc = IF tokenize(qtext) = <<>> THEN "score" ELSE "ensure",
                       !.phase = "rs", !.q = qtext, !.k = k, !.tokens = tokenize(qtext)]]
    /\ UNCHANGED <<env, stemmer, stopwords, blocks, doc_stats, inverted, vocabf, normsf, qe, ret>>

\* if _stopwords is None and os.path.exists(custom_path)
TEnsure(self) ==
    /\ threads[self].pc = "ensure"
    /\ threads' = [threads EXCEPT ![self].pc =
          IF ~stopwords.loaded /\ env.custom THEN "load_custom" ELSE "nltk"]
    /\ UNCHANGED <<env, stemmer, stopwords, blocks, doc_stats, inverted, vocabf, normsf, qe, ret>>

\* _stopwords = set(words); return
TLoadCustom(self) ==
    /\ threads[self].pc = "load_custom"
    /\ stopwords' = [loaded |-> TRUE, words |-> CustomStopwords]
    /\ threads' = [threads EXCEPT ![self].pc = AfterEnsure(threads[self])]
    /\ UNCHANGED <<env, stemmer, blocks, doc_stats, inverted, vocabf, normsf, qe, ret>>

\* if nltk is None: raise; if _stemmer is None
TNltk(self) ==
    /\ threads[self].pc = "nltk"
    /\ threads' = [threads EXCEPT ![self] =
          IF ~env.nltk THEN Raise(threads[self])
          ELSE [threads[self] EXCEPT !.pc = IF stemmer = "None" THEN "stemmer_set" ELSE "sw_test"]]
    /\ UNCHANGED <<env, stemmer, stopwords, blocks, doc_stats, inverted, vocabf, normsf, qe, ret>>

\* _stemmer = SnowballStemmer("spanish")
TStemmerSet(self) ==
    /\ threads[self].pc = "stemmer_set"
    /\ stemmer' = "Snowball"
    /\ threads' = [threads EXCEPT ![self].pc = "sw_test"]
    /\ UNCHANGED <<env, stopwords, blocks, doc_stats, inverted, vocabf, normsf, qe, ret>>

\* if _stopwords is None
TStopwordsTest(self) ==
    /\ threads[self].pc = "sw_test"
    /\ threads' = [threads EXCEPT ![self].pc =
          IF ~stopwords.loaded THEN "sw_load" ELSE AfterEnsure(threads[self])]
    /\ UNCHANGED <<env, stemmer, stopwords, blocks, doc_stats, inverted, vocabf, normsf, qe, ret>>

\* the try statement that loads stopwords.words("spanish")
TStopwordsLoad(self) ==
    /\ threads[self].pc = "sw_load"
    /\ stopwords' = CASE env.corpus = "ok" -> [loaded |-> TRUE, words |-> NltkStopwords]
                       [] env.corpus = "lookup" -> stopwords
                       [] OTHER -> [loaded |-> TRUE, words |-> {}]
    /\ threads' = [threads EXCEPT ![self] =
          IF env.corpus = "lookup" THEN Raise(threads[self])
          ELSE [threads[self] EXCEPT !.pc = AfterEnsure(threads[self])]]
    /\ UNCHANGED <<env, stemmer, blocks, doc_stats, inverted, vocabf, normsf, qe, ret>>

\* return [t for t in tokens if t not in _stopwords]; then stem_tokens is entered
TFilter(self) ==
    /\ threads[self].pc = "filter"
    /\ threads' = [threads EXCEPT ![self].pc = "ensure", ![self].phase = "st",
                                  ![self].tokens = SelectSeq(threads[self].tokens,
                                                             LAMBDA t : t \notin stopwords.words)]
    /\ UNCHANGED <<env, stemmer, stopwords, blocks, doc_stats, inverted, vocabf, normsf, qe, ret>>

\* if _stemmer is not None: ... else: ...
TStem(self) ==
    /\ threads[self].pc = "stem"
    /\ threads' = [threads EXCEPT ![self].pc = "score",
                                  ![self].tokens =
                                      IF stemmer # "None"
                                      THEN [i \in 1..Len(threads[self].tokens) |-> SnowballStem(threads[self].tokens[i])]
                                      ELSE [i \in 1..Len(threads[self].tokens) |-> simple_stem(threads[self].tokens[i])]]
    /\ UNCHANGED <<env, stemmer, stopwords, blocks, doc_stats, inverted, vocabf, normsf, qe, ret>>

\* the rest of query: it reads the engine and the store and writes locals only
TScore(self) ==
    /\ threads[self].pc = "score"
    /\ threads' = [threads EXCEPT ![self].pc = "done",
                                  ![self].out = QueryTokens(qe, inverted, TokensAt(self), threads[self].k)]
    /\ UNCHANGED <<env, stemmer, stopwords, blocks, doc_stats, inverted, vocabf, normsf, qe, ret>>

\* the caller takes the result (or the exception)
TReturn(self) ==
    /\ threads[self].pc = "done"
    /\ threads' = [threads EXCEPT ![self] = Idle]
    /\ UNCHANGED <<env, stemmer, stopwords, blocks, doc_stats, inverted, vocabf, normsf, qe, ret>>

TCallAny == \E self \in Threads, qtext \in ConcurrentQueries, k \in ConcurrentKs : TCall(self, qtext, k)
TEnsureAny == \E self \in Threads : TEnsure(self)
TLoadCustomAny == \E self \in Threads : TLoadCustom(self)
TNltkAny == \E self \in Threads : TNltk(self)
TStemmerSetAny == \E self \in Threads : TStemmerSet(self)
TStopwordsTestAny == \E self \in Threads : TStopwordsTest(self)
TStopwordsLoadAny == \E self \in Threads : TStopwordsLoad(self)
TFilterAny == \E self \in Threads : TFilter(self)
TStemAny == \E self \in Threads : TStem(self)
TScoreAny == \E self \in Threads : TScore(self)
TReturnAny == \E self \in Threads : TReturn(self)

NextConcurrent ==
    \/ TCallAny \/ TEnsureAny \/ TLoadCustomAny \/ TNltkAny \/ TStemmerSetAny
    \/ TStopwordsTestAny \/ TStopwordsLoadAny \/ TFilterAny \/ TStemAny
    \/ TScoreAny \/ TReturnAny

SpecConcurrent == InitConcurrent /\ [][NextConcurrent]_vars

\* Builds alone, over longer streams, each into an empty output directory.
LongDocs ==
    { [id |-> 1, text |-> NoneText],
      [id |-> 1, text |-> Text(<<"El">>)],
      [id |-> 2, text |-> Text(<<"gato", "perro">>)],
      [id |-> 1, text |-> Text(<<"perro", "come", "perro">>)] }

LongStreams == SeqsUpTo(LongDocs, MaxStream)

LongLimits == {1, 2, 3}

BuildLong ==
    /\ blocks = EmptyMap
    /\ \E docs \in LongStreams, limit \in LongLimits : Build(docs, limit)

NextBuild == BuildLong

SpecBuild == Init /\ [][NextBuild]_vars

\* Direct calls of the functions of core/text_preprocessor.py in one process.
PipelineTexts ==
    { NoneText, Text(<<>>), Text(<<"El">>), Text(<<"El", "gato">>),
      Text(<<"perro", "pescado">>) }

PipelineTokens == { <<>>, <<"el">>, <<"el", "gato">>, <<"perro", "pescado">> }

\* the exception a pipeline call ends with, "" when it returns
Raised(p) == IF p.raised THEN "PreprocessError" ELSE ""

NormalizeText(text) ==
    /\ ret' = [NoRet EXCEPT !.op = "normalize_text", !.q = text, !.tokens = normalize_text(text)]
    /\ UNCHANGED <<threads, env, stemmer, stopwords, blocks, doc_stats, inverted, vocabf, normsf, qe>>

Tokenize(text) ==
    /\ ret' = [NoRet EXCEPT !.op = "tokenize", !.q = text, !.tokens = tokenize(text)]
    /\ UNCHANGED <<threads, env, stemmer, stopwords, blocks, doc_stats, inverted, vocabf, normsf, qe>>

RemoveStopwords(tokens) ==
    LET Effect(r) ==
            /\ stemmer' = r.p.stemmer
            /\ stopwords' = r.p.stopwords
            /\ ret' = [NoRet EXCEPT !.op = "remove_stopwords", !.input = tokens,
                                    !.raised = Raised(r.p), !.tokens = r.tokens]
    IN /\ Effect(remove_stopwords(Pipeline, tokens))
       /\ UNCHANGED <<threads, env, blocks, doc_stats, inverted, vocabf, normsf, qe>>

\* impl records the branch of line 104 the call took
StemTokens(tokens) ==
    LET Effect(r) ==
            /\ stemmer' = r.p.stemmer
            /\ stopwords' = r.p.stopwords
            /\ ret' = [NoRet EXCEPT !.op = "stem_tokens", !.input = tokens,
                                    !.raised = Raised(r.p), !.tokens = r.tokens,
                                    !.impl = IF r.p.raised THEN "none"
                                             ELSE IF r.p.stemmer # "None" THEN "Snowball"
                                             ELSE "simple"]
    IN /\ Effect(stem_tokens(Pipeline, tokens))
       /\ UNCHANGED <<threads, env, blocks, doc_stats, inverted, vocabf, normsf, qe>>

\* warm records whether an earlier call had loaded a resource
Preprocess(text) ==
    LET Effect(r) ==
            /\ stemmer' = r.p.stemmer
            /\ stopwords' = r.p.stopwords
            /\ ret' = [NoRet EXCEPT !.op = "preprocess", !.q = text,
                                    !.raised = Raised(r.p), !.tokens = r.tokens,
                                    !.warm = (stemmer # "None" \/ stopwords.loaded)]
    IN /\ Effect(preprocess(Pipeline, text))
       /\ UNCHANGED <<threads, env, blocks, doc_stats, inverted, vocabf, normsf, qe>>

NormalizeAny == \E text \in PipelineTexts : NormalizeText(text)
TokenizeAny == \E text \in PipelineTexts : Tokenize(text)
RemoveStopwordsAny == \E tokens \in PipelineTokens : RemoveStopwords(tokens)
StemTokensAny == \E tokens \in PipelineTokens : StemTokens(tokens)
PreprocessAny == \E text \in PipelineTexts : Preprocess(text)

NextPipeline ==
    NormalizeAny \/ TokenizeAny \/ RemoveStopwordsAny \/ StemTokensAny \/ PreprocessAny

SpecPipeline == Init /\ [][NextPipeline]_vars

\* The index directory is changed from outside between the calls: the bytes
\* of one record of the postings store are overwritten in place, or one of
\* the three index files is deleted.
CorruptForms == {"garbage", "array"}

\* length units that do not parse ("garbage"), or that parse as a JSON array
\* followed by whitespace ("array")
CorruptBytes(form, length) ==
    IF form = "garbage" THEN [i \in 1..length |-> Unit("E", "", 0, 0)]
    ELSE [i \in 1..length |-> IF i = 1 THEN Unit("P", "", 1, 50) ELSE Unit("NL", "", 0, 0)]

Overwrite(data, offset, bytes) ==
    [i \in 1..Len(data) |->
        IF offset < i /\ i <= offset + Len(bytes) THEN bytes[i - offset] ELSE data[i]]

Corrupt ==
    /\ inverted.exists /\ vocabf.exists
    /\ \E t \in DOMAIN vocabf.data, form \in CorruptForms :
          inverted' = File(Overwrite(inverted.data, vocabf.data[t].offset,
                                     CorruptBytes(form, vocabf.data[t].length)))
    /\ ret' = [NoRet EXCEPT !.op = "corrupt"]
    /\ UNCHANGED <<threads, env, stemmer, stopwords, blocks, doc_stats, vocabf, normsf, qe>>

Remove ==
    /\ \/ inverted.exists /\ inverted' = NoFile /\ UNCHANGED <<vocabf, normsf>>
       \/ vocabf.exists /\ vocabf' = NoFile /\ UNCHANGED <<inverted, normsf>>
       \/ normsf.exists /\ normsf' = NoFile /\ UNCHANGED <<inverted, vocabf>>
    /\ ret' = [NoRet EXCEPT !.op = "remove"]
    /\ UNCHANGED <<threads, env, stemmer, stopwords, blocks, doc_stats, qe>>

BuildOnce ==
    /\ blocks = EmptyMap
    /\ \E limit \in BlockLimits :
          Build(<<[id |-> 1, text |-> Text(<<"El", "gato">>)],
                  [id |-> 2, text |-> Text(<<"gato", "perro">>)]>>, limit)

NextCorrupt == BuildOnce \/ Merge \/ NewEngine \/ Corrupt \/ Remove \/ QueryAny

SpecCorrupt == InitRebuild /\ [][NextCorrupt]_vars

----------------------------------------------------------------------------
(* Properties of the merged index *)

MergeReturned == ret.op = "merge" /\ ret.raised = ""

\* the bytes the dictionary entry of t points at
SliceOf(t) == ReadAt(inverted.data, vocabf.data[t].offset, vocabf.data[t].length)

\* the aggregation merge_blocks builds from the block files on disk
TermDocTf == AggregateBlocks(EmptyMap, blocks, SortedBlockFiles(DOMAIN blocks))

\* number of [doc_id, tf] pairs the block files hold for term t
RawPairs(t) ==
    Cardinality({ x \in UNION { {i} \X (1..Len(blocks[i][t])) : i \in { j \in DOMAIN blocks : t \in DOMAIN blocks[j] } } : TRUE })

\* C1: after a successful merge, for every term of the dictionary the stored
\* df equals the number of distinct document ids in the term's postings
\* record, and equals the df field of that record.
C1_DfEqualsDistinctDocs ==
    vocabf.exists =>
        \A t \in DOMAIN vocabf.data :
            LET rec == JsonLoads(SliceOf(t))
            IN /\ rec.kind = "object"
               /\ vocabf.data[t].df = Cardinality({ rec.postings[i][1] : i \in 1..Len(rec.postings) })
               /\ vocabf.data[t].df = rec.df

\* a merge returned and some term's pairs recurred for one document
C1_Witness ==
    /\ MergeReturned
    /\ \E t \in DOMAIN vocabf.data : RawPairs(t) > vocabf.data[t].df

\* C2: after a successful merge, every dictionary entry's byte range is
\* exactly one complete well-formed record line whose term is the key; the
\* ranges do not overlap and every byte of the store lies in exactly one.
C2_OffsetsLocateRecords ==
    vocabf.exists =>
        /\ inverted.exists
        /\ \A t \in DOMAIN vocabf.data :
              LET m == vocabf.data[t]
                  sl == SliceOf(t)
              IN /\ m.offset + m.length <= Len(inverted.data)
                 /\ m.length >= 1
                 /\ m.offset = 0 \/ inverted.data[m.offset].k = "NL"
                 /\ sl[1].k = "T" /\ sl[1].s = t
                 /\ sl[Len(sl)].k = "NL"
                 /\ \A i \in 1..(Len(sl) - 1) : sl[i].k # "NL"
                 /\ JsonLoads(sl).kind = "object"
                 /\ JsonLoads(sl).term = t
        /\ \A i \in 1..Len(inverted.data) :
              Cardinality({ t \in DOMAIN vocabf.data :
                              vocabf.data[t].offset < i
                              /\ i <= vocabf.data[t].offset + vocabf.data[t].length }) = 1

\* a merge returned a store of at least two records
C2_Witness ==
    /\ MergeReturned
    /\ Cardinality(DOMAIN vocabf.data) >= 2
    /\ \E t \in DOMAIN vocabf.data : vocabf.data[t].offset > 0

\* sum of the squared weights of the postings of document d in the store
RECURSIVE SquaredWeights(_, _)
SquaredWeights(data, d) ==
    IF data = <<>> THEN 0
    ELSE (IF Head(data).k = "P" /\ Head(data).n = d THEN Head(data).w * Head(data).w ELSE 0)
         + SquaredWeights(Tail(data), d)

StoreDocs == { inverted.data[i].n : i \in { j \in 1..Len(inverted.data) : inverted.data[j].k = "P" } }

\* C3: after a successful merge, the norm table has an entry exactly for the
\* document ids that occur in some posting, and each value is the square
\* root of the sum of the squared weights of the document's postings over
\* the whole store (in fixed point: the largest n with n * n <= sum).
C3_NormsMatchFullScan ==
    normsf.exists =>
        /\ DOMAIN normsf.data = StoreDocs
        /\ \A d \in StoreDocs :
              LET n == normsf.data[d]
                  sum == SquaredWeights(inverted.data, d)
              IN n * n <= sum /\ sum < (n + 1) * (n + 1)

\* a merge returned and some document has two postings of nonzero weight
C3_Witness ==
    /\ MergeReturned
    /\ \E i, j \in 1..Len(inverted.data) :
          /\ i < j
          /\ inverted.data[i].k = "P" /\ inverted.data[j].k = "P"
          /\ inverted.data[i].n = inverted.data[j].n
          /\ inverted.data[i].w > 0 /\ inverted.data[j].w > 0

\* C4: the N that merge computes idf with (distinct aggregated document ids,
\* reported as N) equals the number of entries of the norm table, which the
\* QueryEngine uses as document count; so for every dictionary term the idf
\* of query equals the idf of merge.
C4_DocCountAgreement ==
    /\ MergeReturned => ret.N = Cardinality(DOMAIN normsf.data)
    /\ qe.built =>
          /\ Cardinality(DOMAIN qe.doc_norms) = Cardinality(DocIdsOf(TermDocTf))
          /\ \A t \in DOMAIN qe.vocab :
                Idf(Cardinality(DOMAIN qe.doc_norms), qe.vocab[t].df)
                    = Idf(Cardinality(DocIdsOf(TermDocTf)), Len(TermDocTf[t]))

\* a query used a term whose idf is not zero, and some document of the index
\* has only postings of weight zero
C4_Witness ==
    /\ ret.op = "query" /\ ret.raised = ""
    /\ \E t \in Range(ret.tokens) \cap DOMAIN qe.vocab :
          qe.vocab[t].df < Cardinality(DOMAIN qe.doc_norms)
    /\ \E d \in DOMAIN qe.doc_norms : qe.doc_norms[d] = 0

----------------------------------------------------------------------------
(* Properties of query *)

\* the last call was a query whose text the pipeline preprocessed
QueryRan == ret.op = "query" /\ ret.raised # "PreprocessError"

\* ... and it returned
QueryReturned == ret.op = "query" /\ ret.raised = ""

NormOf(d) == IF d \in DOMAIN qe.doc_norms THEN qe.doc_norms[d] ELSE 0

\* positions of accum whose document has a nonzero stored norm: its score is defined
ScoredAt == { i \in 1..Len(ret.accum) : NormOf(ret.accum[i][1]) # 0 }

ScoreAt(i) == Score(ret.accum[i][2], ret.q_norm, NormOf(ret.accum[i][1]))

Returned == { ret.results[j][1] : j \in 1..Len(ret.results) }

\* C5: the number of results equals min(k, number of candidates with a
\* defined nonzero score); a document whose accumulated dot product is zero
\* is never returned.
C5_CountsNonzeroScores ==
    QueryReturned =>
        /\ Len(ret.results) = Min(ret.k, Cardinality({ i \in ScoredAt : ret.accum[i][2] # 0 }))
        /\ \A i \in 1..Len(ret.accum) : ret.accum[i][2] = 0 => ret.accum[i][1] \notin Returned

\* C6: for every query text and every k >= 0, query returns normally and
\* its result list has at most k entries.
C6_ReturnsAtMostK ==
    (QueryRan /\ ret.k >= 0) => (ret.raised = "" /\ Len(ret.results) <= ret.k)

\* C7: the result list is sorted by non-increasing score and holds the
\* highest-scoring candidates: every entry is a scored candidate with its
\* score, min(k, candidates) of them are returned, and no scored candidate
\* left out has a score greater than the score of a returned document.
C7_TopKSorted ==
    QueryReturned =>
        /\ \A j \in 1..(Len(ret.results) - 1) : ret.results[j][2] >= ret.results[j + 1][2]
        /\ \A j \in 1..Len(ret.results) :
              \E i \in ScoredAt : ret.accum[i][1] = ret.results[j][1] /\ ScoreAt(i) = ret.results[j][2]
        /\ Len(ret.results) = Min(ret.k, Cardinality(ScoredAt))
        /\ \A i \in ScoredAt :
              ret.accum[i][1] \notin Returned =>
                  \A j \in 1..Len(ret.results) : ScoreAt(i) <= ret.results[j][2]

\* a query with k = 1 returned a candidate that replaced an earlier one
C7_Witness ==
    /\ QueryReturned
    /\ ret.k = 1
    /\ \E i, j \in ScoredAt : i < j /\ ret.accum[j][1] \in Returned /\ ScoreAt(i) < ScoreAt(j)

\* C8: bytes_read is the sum of the length fields of the dictionary entries
\* of the distinct query terms present in the dictionary, each counted once.
C8_BytesReadIsSumOfLengths ==
    QueryReturned =>
        LET terms == SetToSeq(Range(ret.tokens) \cap DOMAIN qe.vocab)
        IN ret.bytes_read = SumSeq([i \in 1..Len(terms) |-> qe.vocab[terms[i]].length])

\* a query returned whose text repeats a dictionary term and names another
\* whose bytes in the store, rewritten by a later merge, do not parse
C8_Witness ==
    /\ QueryReturned
    /\ ret.bytes_read > 0
    /\ \E t \in DOMAIN qe.vocab : Count(ret.tokens, t) >= 2
    /\ \E t \in Range(ret.tokens) \cap DOMAIN qe.vocab :
          JsonLoads(ReadAt(inverted.data, qe.vocab[t].offset, qe.vocab[t].length)).kind = "invalid"

\* C9: a query whose text preprocesses to no token returns an empty result
\* list with elapsed time 0 and bytes_read 0 and reads nothing from the
\* store; a query made only of out-of-vocabulary terms returns an empty
\* result list with bytes_read 0.
C9_EmptyAndOovQueries ==
    /\ (QueryRan /\ ret.tokens = <<>>) =>
          /\ ret.raised = "" /\ ret.results = <<>>
          /\ ret.time = "zero" /\ ret.bytes_read = 0 /\ ret.reads = 0
    /\ (QueryRan /\ ret.tokens # <<>> /\ Range(ret.tokens) \cap DOMAIN qe.vocab = {}) =>
          /\ ret.raised = "" /\ ret.results = <<>>
          /\ ret.bytes_read = 0 /\ ret.reads = 0

\* a query of stopwords only returned, against an index that has documents
C9_Witness ==
    /\ QueryReturned
    /\ ret.q = Text(<<"El">>)
    /\ ret.tokens = <<>>
    /\ DOMAIN qe.vocab # {}

\* C10: terms that are not dictionary keys contribute nothing: the query
\* with them raises no error and returns the same documents, scores and
\* bytes_read as the query without them.
C10_OovTermsContributeNothing ==
    LET known == SelectSeq(ret.tokens, LAMBDA t : t \in DOMAIN qe.vocab)
        alone == QueryTokens(qe, inverted, known, ret.k)
    IN (QueryRan /\ known # ret.tokens) =>
          /\ ret.raised = ""
          /\ ret.results = alone.results
          /\ ret.bytes_read = alone.bytes_read

----------------------------------------------------------------------------
(* Error handling of query, merge and engine construction *)

\* what the engine finds in the store at the range its dictionary holds for t
EngineRecord(t) == JsonLoads(ReadAt(inverted.data, qe.vocab[t].offset, qe.vocab[t].length))

\* dictionary terms of the last query
QueryTerms == Range(ret.tokens) \cap DOMAIN qe.vocab

\* C11: when the bytes at the stored range of a query term are not a
\* well-formed record, the query does not raise, and every candidate it
\* accumulated comes from the well-formed record of some query term.
C11_CorruptRecordsReadAsEmpty ==
    (QueryRan /\ inverted.exists /\ \E t \in QueryTerms : EngineRecord(t).kind # "object") =>
        /\ ret.raised = ""
        /\ \A i \in 1..Len(ret.accum) :
              \E t \in QueryTerms :
                  /\ EngineRecord(t).kind = "object"
                  /\ \E j \in 1..Len(EngineRecord(t).postings) :
                        EngineRecord(t).postings[j][1] = ret.accum[i][1]

\* C12: a merge that finds no block file, or whose blocks aggregate to zero
\* documents, raises and leaves the postings store, the dictionary and the
\* norm table as they were.
C12_FailedMergeWritesNothing ==
    [][ (ret'.op = "merge" /\ (blocks = EmptyMap \/ DocIdsOf(TermDocTf) = {})) =>
            (ret'.raised # "" /\ UNCHANGED <<inverted, vocabf, normsf>>) ]_vars

\* a merge over one empty block raised while the files of an earlier merge exist
C12_Witness ==
    /\ ret.op = "merge" /\ ret.raised = "RuntimeError"
    /\ blocks # EmptyMap
    /\ inverted.exists /\ vocabf.exists /\ normsf.exists
    /\ DOMAIN vocabf.data # {}

\* C13: constructing an engine raises when one of the postings store, the
\* dictionary and the norm table is missing, and otherwise returns an engine
\* holding the whole dictionary and the whole norm table.
C13_EngineNeedsAllThreeFiles ==
    ret.op = "engine" =>
        /\ ret.raised = "" <=> (inverted.exists /\ vocabf.exists /\ normsf.exists)
        /\ ret.raised = "" => (qe.built /\ qe.vocab = vocabf.data /\ qe.doc_norms = normsf.data)

\* a construction raised with only the norm table missing
C13_Witness ==
    /\ ret.op = "engine" /\ ret.raised = "FileNotFoundError"
    /\ inverted.exists /\ vocabf.exists /\ ~normsf.exists

\* C14: a returned document has a nonzero stored norm and a posting in the
\* record of some dictionary term of the query; against the index of the
\* three-document corpus the query "gato" never returns document 2, returns
\* only documents 1 and 3, and returns both when k >= 2.
C14_OnlyMatchingDocsReturned ==
    QueryReturned =>
        /\ \A j \in 1..Len(ret.results) :
              /\ NormOf(ret.results[j][1]) # 0
              /\ \E t \in QueryTerms :
                    \E i \in 1..Len(EngineRecord(t).postings) :
                        EngineRecord(t).postings[i][1] = ret.results[j][1]
        /\ ret.q = Text(<<"gato">>) =>
              /\ 2 \notin Returned
              /\ Returned \subseteq {1, 3}
              /\ ret.k >= 2 => Returned = {1, 3}

\* the query "gato" returned two documents from an index of three
C14_Witness ==
    /\ QueryReturned
    /\ ret.q = Text(<<"gato">>)
    /\ Cardinality(DOMAIN qe.doc_norms) = 3
    /\ Len(ret.results) = 2

----------------------------------------------------------------------------
(* Properties of the text pipeline *)

\* the pipeline of a process that has made no call yet
FreshPipeline ==
    [stemmer |-> "None", stopwords |-> [loaded |-> FALSE, words |-> {}], raised |-> FALSE]

PipelineOps == {"normalize_text", "tokenize", "remove_stopwords", "stem_tokens", "preprocess"}

\* C15: in a fixed environment, whatever pipeline calls came before,
\* preprocess(x) ends as the first call of a fresh process would: it raises
\* exactly when that call raises and otherwise returns the same tokens.
C15_PreprocessIgnoresHistory ==
    ret.op = "preprocess" =>
        LET first == preprocess(FreshPipeline, ret.q)
        IN /\ (ret.raised # "") = first.p.raised
           /\ ~first.p.raised => ret.tokens = first.tokens

\* preprocess returned stemmed tokens after earlier calls had loaded
\* resources, where both the stopword file and nltk are present
C15_Witness ==
    /\ ret.op = "preprocess" /\ ret.raised = ""
    /\ ret.warm
    /\ env.custom /\ env.nltk
    /\ "gat" \in Range(ret.tokens)

\* C16: two calls of stem_tokens that follow each other and return apply
\* the same stemmer implementation.
C16_StemmerChoiceIsFixed ==
    [][ (ret.op = "stem_tokens" /\ ret.raised = ""
         /\ ret'.op = "stem_tokens" /\ ret'.raised = "") => ret'.impl = ret.impl ]_vars

\* C17: where neither the stopword file nor the nltk stopword corpus can be
\* loaded, the stopword set is never loaded and every call that needs it
\* raises.
C17_NoSilentEmptyStopwords ==
    (~env.custom /\ (~env.nltk \/ env.corpus # "ok")) =>
        /\ ~stopwords.loaded
        /\ ret.op \in {"remove_stopwords", "stem_tokens"} => ret.raised # ""

\* C18: no pipeline call raises, and None or empty input gives no token.
C18_PipelineNeverRaises ==
    ret.op \in PipelineOps =>
        /\ ret.raised = ""
        /\ (ret.op \in {"normalize_text", "tokenize", "preprocess"} /\ ret.q \in {NoneText, Text(<<>>)}) =>
              ret.tokens = <<>>
        /\ (ret.op \in {"remove_stopwords", "stem_tokens"} /\ ret.input = <<>>) =>
              ret.tokens = <<>>

----------------------------------------------------------------------------
(* Determinism of merge *)

\* C19: merging the same block files again, in whatever order the directory
\* lists them, gives the postings store, the dictionary and the norm table
\* that the last merge wrote.
C19_MergeIsDeterministic ==
    MergeReturned =>
        \A listing \in GlobListings(blocks) :
            LET again == merge_blocks(blocks, listing)
            IN /\ again.raised = ""
               /\ again.inverted = inverted.data
               /\ again.vocab = vocabf.data
               /\ again.doc_norms = normsf.data

\* a merge returned over two block files that share a term
C19_Witness ==
    /\ MergeReturned
    /\ \E i, j \in DOMAIN blocks : i # j /\ (DOMAIN blocks[i]) \cap (DOMAIN blocks[j]) # {}

\* the code points of the terms of the model
Spelling(t) ==
    CASE t = "carn" -> <<99, 97, 114, 110>>
      [] t = "carne" -> <<99, 97, 114, 110, 101>>
      [] t = "com" -> <<99, 111, 109>>
      [] t = "come" -> <<99, 111, 109, 101>>
      [] t = "duerm" -> <<100, 117, 101, 114, 109>>
      [] t = "duerme" -> <<100, 117, 101, 114, 109, 101>>
      [] t = "el" -> <<101, 108>>
      [] t = "gat" -> <<103, 97, 116>>
      [] t = "gato" -> <<103, 97, 116, 111>>
      [] t = "perr" -> <<112, 101, 114, 114>>
      [] t = "perro" -> <<112, 101, 114, 114, 111>>
      [] t = "pesc" -> <<112, 101, 115, 99>>
      [] t = "pescado" -> <<112, 101, 115, 99, 97, 100, 111>>
      [] t = "pez" -> <<112, 101, 122>>

\* the terms of the records of the store, in file order
StoreTerms == SelectSeq(inverted.data, LAMBDA u : u.k = "T")

\* C20: the terms of the records of the postings store are in strictly
\* ascending lexicographic order, so each occurs once.
C20_TermsStrictlyAscending ==
    inverted.exists =>
        \A i \in 1..(Len(StoreTerms) - 1) :
            LexLess(Spelling(StoreTerms[i].s), Spelling(StoreTerms[i + 1].s))

\* a merge wrote three records whose terms were first met in another order
C20_Witness ==
    /\ MergeReturned
    /\ Len(StoreTerms) >= 3
    /\ 0 \in DOMAIN blocks /\ "gat" \in DOMAIN blocks[0] /\ "com" \in DOMAIN vocabf.data

----------------------------------------------------------------------------
(* Build/merge cycles *)

\* the block files the last call, a build, wrote
WrittenBlocks == [i \in Range(ret.written) |-> blocks[i]]

\* C21: a merge that follows a build gives the postings store, dictionary
\* and norm table of the blocks that build wrote, whatever earlier builds
\* left in the output directory.
C21_RebuildReplacesIndex ==
    [][ (ret.op = "build" /\ ret.raised = "" /\ ret'.op = "merge") =>
            LET expected == merge_blocks(WrittenBlocks, SortedBlockFiles(DOMAIN WrittenBlocks))
            IN /\ ret'.raised = expected.raised
               /\ expected.raised = "" =>
                     /\ inverted'.data = expected.inverted
                     /\ vocabf'.data = expected.vocab
                     /\ normsf'.data = expected.doc_norms ]_vars

----------------------------------------------------------------------------
(* Properties of build_from_documents (checked on builds into an empty
   output directory, where the block files are those the call wrote) *)

BuildReturned == ret.op = "build" /\ ret.raised = ""

\* the tokens of the i-th document of the stream of the last build
StreamTokens(i) == preprocess(Pipeline, ret.docs[i].text).tokens

\* positions of the stream whose document preprocesses to some token
Indexed == { i \in 1..Len(ret.docs) : StreamTokens(i) # <<>> }

\* ... in stream order
IndexedSeq == Ascending(Indexed)

\* positions (block, index) of the pairs the block files hold for term t
PairsAt(t) ==
    UNION { {b} \X (1..Len(blocks[b][t])) : b \in { c \in DOMAIN blocks : t \in DOMAIN blocks[c] } }

\* block files in which document id d has a pair
BlocksHolding(d) ==
    { b \in DOMAIN blocks : \E t \in DOMAIN blocks[b] : \E j \in 1..Len(blocks[b][t]) : blocks[b][t][j][1] = d }

\* C23: the pairs of the block files are, for every document that
\* preprocesses to some token and every distinct term of it, one pair
\* [doc id, occurrences], all pairs of a document in one block; documents
\* that preprocess to nothing have no pair and no statistics entry and do
\* not count toward block_doc_limit.
C23_BlocksHoldExactlyTheStream ==
    BuildReturned =>
        /\ \A t \in Range(TermOrder), d \in DocIds, tf \in 0..3 :
              Cardinality({ x \in PairsAt(t) : blocks[x[1]][t][x[2]] = <<d, tf>> })
                  = IF tf = 0 THEN 0
                    ELSE Cardinality({ i \in Indexed : ret.docs[i].id = d /\ Count(StreamTokens(i), t) = tf })
        /\ \A b \in DOMAIN blocks : \A t \in DOMAIN blocks[b] : \A j \in 1..Len(blocks[b][t]) :
              /\ t \in Range(TermOrder)
              /\ blocks[b][t][j][1] \in DocIds
              /\ blocks[b][t][j][2] \in 1..3
        /\ \A i \in Indexed :
              (\A j \in Indexed : j # i => ret.docs[j].id # ret.docs[i].id) =>
                  Cardinality(BlocksHolding(ret.docs[i].id)) = 1
        /\ doc_stats.exists /\ DOMAIN doc_stats.data = { ret.docs[i].id : i \in Indexed }
        /\ Cardinality(DOMAIN blocks) =
              IF Indexed = {} THEN 1
              ELSE (Cardinality(Indexed) + ret.limit - 1) \div ret.limit

\* a build returned over a stream holding a document without tokens and a
\* document that repeats a term
C23_Witness ==
    /\ BuildReturned
    /\ \E i \in 1..Len(ret.docs) : i \notin Indexed
    /\ \E i \in Indexed : \E t \in Range(StreamTokens(i)) : Count(StreamTokens(i), t) = 2
    /\ Cardinality(DOMAIN blocks) = 2

\* the indexed documents that go to block b
Chunk(b) == SubSeq(IndexedSeq, b * ret.limit + 1, Min((b + 1) * ret.limit, Len(IndexedSeq)))

\* the block map holding exactly the documents at the positions of items
RECURSIVE BlockOf(_)
BlockOf(items) ==
    IF items = <<>> THEN EmptyMap
    ELSE AppendPostings(BlockOf(SubSeq(items, 1, Len(items) - 1)),
                        ret.docs[items[Len(items)]].id, StreamTokens(items[Len(items)]))

\* the block ids are 0, 1, 2, ... and block b holds exactly the documents of Chunk(b)
SequentialBlocks ==
    /\ ret.written = [i \in 1..Len(ret.written) |-> i - 1]
    /\ DOMAIN blocks = { i - 1 : i \in 1..Len(ret.written) }
    /\ \A b \in DOMAIN blocks : blocks[b] = BlockOf(Chunk(b))
    /\ Len(ret.written) * ret.limit >= Len(IndexedSeq)
    /\ \A b \in DOMAIN blocks : b < Len(ret.written) - 1 => Len(Chunk(b)) = ret.limit

\* C24 as stated: block ids 0, 1, 2, ... without gap or repetition, every
\* block but the last holds exactly block_doc_limit documents, the last
\* holds between 1 and block_doc_limit, and nothing of a flushed block is
\* carried into the next.
C24_Original ==
    (BuildReturned /\ ret.limit >= 1) =>
        /\ SequentialBlocks
        /\ Len(Chunk(Len(ret.written) - 1)) \in 1..ret.limit

\* C24, amended: as above, except that a build that placed no document
\* writes the single block 0 holding an empty map.
C24_SequentialFullBlocks ==
    (BuildReturned /\ ret.limit >= 1) =>
        /\ SequentialBlocks
        /\ \/ Len(Chunk(Len(ret.written) - 1)) \in 1..ret.limit
           \/ IndexedSeq = <<>> /\ ret.written = <<0>> /\ blocks[0] = EmptyMap

\* a build wrote a full block and then a partial last block
C24_Witness ==
    /\ BuildReturned
    /\ ret.limit = 2
    /\ ret.written = <<0, 1>>
    /\ Len(Chunk(0)) = 2 /\ Len(Chunk(1)) = 1

\* C25: a build leaves at least one block file; a stream without indexed
\* document gives block 0 alone, holding an empty map; a stream whose number
\* of indexed documents is a multiple of block_doc_limit gives no empty block.
C25_AtLeastOneBlock ==
    BuildReturned =>
        /\ DOMAIN blocks # {}
        /\ Indexed = {} => (ret.written = <<0>> /\ blocks = (0 :> EmptyMap))
        /\ (Indexed # {} /\ Cardinality(Indexed) % ret.limit = 0) =>
              /\ Len(ret.written) = Cardinality(Indexed) \div ret.limit
              /\ \A b \in DOMAIN blocks : blocks[b] # EmptyMap

\* a build over two indexed documents and one without tokens filled one
\* block of limit 2 exactly
C25_Witness ==
    /\ BuildReturned
    /\ Len(ret.docs) = 3 /\ Cardinality(Indexed) = 2
    /\ ret.limit = 2
    /\ ret.written = <<0>>

\* C29: the blocks_written of the report is the number of block files the
\* call wrote.
C29_ReportCountsBlocks ==
    BuildReturned => ret.blocks_written = Len(ret.written)

----------------------------------------------------------------------------
(* Order and aggregation of the blocks in merge *)

\* the aggregation of the block files read in ascending order of their ids
NumericTermDocTf == AggregateBlocks(EmptyMap, blocks, Ascending(DOMAIN blocks))

\* C26: merge reads the block files in ascending numeric order of their
\* ids: the documents of every record of the store are in the order in
\* which the blocks, taken by ascending id, name them.
C26_BlocksReadInNumericOrder ==
    MergeReturned =>
        \A t \in DOMAIN vocabf.data :
            LET rec == JsonLoads(SliceOf(t))
            IN [i \in 1..Len(rec.postings) |-> rec.postings[i][1]]
                  = [i \in 1..Len(NumericTermDocTf[t]) |-> NumericTermDocTf[t][i][1]]

\* positions of the pairs the block files hold for term t and document d
PairsOf(t, d) == { x \in PairsAt(t) : blocks[x[1]][t][x[2]][1] = d }

\* the sum of the frequencies of those pairs
RawTf(t, d) ==
    LET ps == SetToSeq(PairsOf(t, d))
    IN SumSeq([i \in 1..Len(ps) |-> blocks[ps[i][1]][t][ps[i][2]][2]])

RawTerms == { t \in UNION { DOMAIN blocks[b] : b \in DOMAIN blocks } : PairsAt(t) # {} }

RawDocs(t) == { blocks[x[1]][t][x[2]][1] : x \in PairsAt(t) }

\* C27: however often a (term, document) pair recurs in the block files,
\* the store holds one posting for it, weighted from the sum of the pair's
\* frequencies, and the document counts once in N and once in the term's df.
C27_RecurringPairsAreSummed ==
    MergeReturned =>
        /\ DOMAIN vocabf.data = RawTerms
        /\ ret.N = Cardinality(UNION { RawDocs(t) : t \in RawTerms })
        /\ \A t \in RawTerms :
              LET rec == JsonLoads(SliceOf(t))
              IN /\ rec.df = Cardinality(RawDocs(t))
                 /\ { rec.postings[i][1] : i \in 1..Len(rec.postings) } = RawDocs(t)
                 /\ \A d \in RawDocs(t) :
                       /\ Cardinality({ i \in 1..Len(rec.postings) : rec.postings[i][1] = d }) = 1
                       /\ \A i \in 1..Len(rec.postings) :
                             rec.postings[i][1] = d =>
                                 rec.postings[i][2] = Weight(ret.N, rec.df, RawTf(t, d))

\* a merge returned a posting of nonzero weight for a pair that occurs
\* twice in one block file
C27_Witness ==
    /\ MergeReturned
    /\ \E t \in RawTerms : \E d \in RawDocs(t) :
          /\ \E x, y \in PairsOf(t, d) : x # y /\ x[1] = y[1]
          /\ Weight(ret.N, Cardinality(RawDocs(t)), RawTf(t, d)) > 0

----------------------------------------------------------------------------
(* Fallback stemmer; engines that outlive a merge *)

\* C28: with the stopword file present and nltk not importable, every call
\* of stem_tokens and of preprocess returns, and stem_tokens applies the
\* heuristic stemmer.
C28_HeuristicStemmerWithoutNltk ==
    (env.custom /\ ~env.nltk /\ ret.op \in {"stem_tokens", "preprocess"}) =>
        /\ ret.raised = ""
        /\ ret.op = "stem_tokens" => ret.impl = "simple"

\* C30: whatever merges came after the engine was constructed, a non-empty
\* postings list that _read_postings(t) returns is read from a record whose
\* term is t.
C30_PostingsBelongToTheTerm ==
    (qe.built /\ inverted.exists) =>
        \A t \in DOMAIN qe.vocab :
            (EngineRecord(t).kind = "object" /\ read_postings(qe, inverted, t).postings # <<>>) =>
                EngineRecord(t).term = t

\* C22: with no merge in progress, whatever the interleaving of the query
\* calls of two threads on one engine (the first calls, which load the
\* stemmer and the stopwords, included), the loaded dictionary and norm table
\* stay as loaded from the files, and every finished call has the exception,
\* the results and the bytes_read of the same call run alone.
Alone(th) == query(FreshPipeline, qe, inverted, th.q, th.k).out

SameAnswer(a, b) ==
    /\ a.raised = b.raised
    /\ a.results = b.results
    /\ a.bytes_read = b.bytes_read

C22_ConcurrentQueriesAreIsolated ==
    /\ qe.built
    /\ qe.vocab = vocabf.data
    /\ qe.doc_norms = normsf.data
    /\ \A t \in Threads :
          threads[t].pc = "done" => SameAnswer(threads[t].out, Alone(threads[t]))

\* one call has returned a document while the other call, which saw
\* _stopwords unset before the first one set it, is about to set it again
C22_Witness ==
    \E a, b \in Threads :
        /\ a # b
        /\ threads[a].pc = "done"
        /\ threads[a].out.results # <<>>
        /\ threads[b].pc \in {"load_custom", "sw_load"}
        /\ stopwords.loaded

====
